---- MODULE Spec2Model ----
(***************************************************************************)
(* Verification model of the TART catalogue server.                        *)
(*                                                                         *)
(*   SkySpec : the file-backed catalogue cache of                          *)
(*             app_skyfield/skyfield_catalog.py (get_cache_dir,            *)
(*             get_cache_file, get_catalog), run by concurrent callers.    *)
(*   Spec    : the HTTP layer (tart_catalogue/main.py, app/restful_api.py) *)
(*             on top of the ephemeris caches of app/norad_cache.py.       *)
(*   LoadSpec: the catalogue file loader of app/norad_cache.py             *)
(*             (Sp4Ephemerides.__init__), one line of the file at a time.  *)
(***************************************************************************)
EXTENDS Integers, Sequences, FiniteSets, TLC

VARIABLES
    \* ---- skyfield catalogue cache ----
    now,        \* wall clock, in ticks (TicksPerDay ticks to a day)
    dirs,       \* the cache directories made so far
    files,      \* the cache files: path -> mtime of the file at that path
    pc,         \* per caller: position inside get_catalog
    arg,        \* per caller: the (group, obs_t) of the running call
    fname,      \* per caller: catalog_fname
    need,       \* per caller: outcome of the condition of line 50
    seen,       \* per caller: the file's age found at line 50, -1 for no file
    nDownload,  \* per (group, calendar day): completed downloads
    nParse,     \* per (group, calendar day): file parses (lines 53-56)
    nQuery,     \* per (group, calendar day): get_catalog calls that returned
    issued,     \* number of get_catalog calls started
    overlapped, \* whether any call started while another was running
    \* ---- HTTP servers ----
    server,     \* which program runs: "fastapi" (main.py) or "flask"
    caches,     \* the module-wide sources that have been constructed
    started,    \* whether the application is between startup and shutdown
    assigned,   \* how many times the module-wide sources have been assigned
    objects,    \* in-memory parsed catalogues: pairs <<kind, day>>
    request,    \* the last request handled since startup
    asked,      \* the sources the last request called, in order
    raised,     \* the source whose call raised in the last request, or "none"
    response,   \* the response to the last request
    \* ---- catalogue file loader ----
    local_path, \* the lines of the catalogue file on disk
    name_list,  \* the name_list argument of the constructor
    lines,      \* f.readlines()
    lineno,     \* how many lines the loop has consumed (the next i)
    name,       \* the locals of the loop ...
    line1,
    line2,
    satellites, \* self.satellites
    lpc         \* the constructor's position: "new", "loop" or "done"

skyVars == <<now, dirs, files, pc, arg, fname, need, seen,
             nDownload, nParse, nQuery, issued, overlapped>>

apiVars == <<server, caches, started, assigned, objects, request, asked,
             raised, response>>

loadVars == <<local_path, name_list, lines, lineno, name, line1, line2,
              satellites, lpc>>

vars == <<skyVars, apiVars, loadVars>>

(***************************************************************************)
(* Bounds of the model.                                                    *)
(***************************************************************************)
TicksPerDay == 1
MaxClock == 2
MaxCalls == 3
MaxDates == 2
MaxLines == 6
MaxNames == 2
MaxStarts == 2

(***************************************************************************)
(* skyfield_catalog.py                                                     *)
(***************************************************************************)
max_days == 1

\* Two concurrent callers of get_catalog.
Procs == {1, 2}

\* The groups get_catalog_list asks for (two of the four, to bound the model).
Groups == {"GALILEO", "GPS-OPS"}

\* An observation time is an astropy Time: jd1 is the Julian day number of
\* the calendar day, jd2 the offset within it, here in units of 10^-7 day
\* (so 1000000 is 0.1 day).
Days == {2460000, 2460001}
ObsTimes ==
    {[jd1 |-> 2460000, jd2 |-> 1000000], [jd1 |-> 2460000, jd2 |-> 1000004],
     [jd1 |-> 2460001, jd2 |-> -2500000], [jd1 |-> 2460001, jd2 |-> 1000000]}

CalendarDay(t) == t.jd1

\* Python's int(): truncation towards zero of n / m.
IntDiv(n, m) == IF n >= 0 THEN n \div m ELSE -((-n) \div m)

\* "%f" of a value given in units of 10^-7: six decimals, round half even.
Format6(n) ==
    LET q == n \div 10
        r == n % 10
    IN  IF r < 5 THEN q
        ELSE IF r > 5 THEN q + 1
        ELSE IF q % 2 = 0 THEN q ELSE q + 1

\* get_cache_dir: ~/catalogue_cache/<int(jd1)>/<int(jd2*100)>
get_cache_dir(t) == <<t.jd1, IntDiv(t.jd2, 100000)>>

\* get_cache_file: <cache dir>/<jd2 with six decimals>_<group>.csv
get_cache_file(group, t) ==
    [dir |-> get_cache_dir(t), file |-> <<Format6(t.jd2), group>>]

Keys == Groups \X Days
KeyOf(a) == <<a.group, CalendarDay(a.t)>>

NoArg == [group |-> "", t |-> [jd1 |-> 0, jd2 |-> 0]]
NoFile == [dir |-> <<0, 0>>, file |-> <<0, "">>]

exists(path) == path \in DOMAIN files
\* load.days_old(path), in ticks
days_old(path) == now - files[path]

\* line 50: not load.exists(f) or load.days_old(f) >= max_days
NeedsDownloadStrict(path) ==
    ~exists(path) \/ days_old(path) > max_days * TicksPerDay
NeedsDownload(path) ==
    ~exists(path) \/ days_old(path) >= max_days * TicksPerDay

InitSky ==
    /\ now = 0
    /\ dirs = {}
    /\ files = << >>
    /\ pc = [p \in Procs |-> "idle"]
    /\ arg = [p \in Procs |-> NoArg]
    /\ fname = [p \in Procs |-> NoFile]
    /\ need = [p \in Procs |-> FALSE]
    /\ seen = [p \in Procs |-> -1]
    /\ nDownload = [k \in Keys |-> 0]
    /\ nParse = [k \in Keys |-> 0]
    /\ nQuery = [k \in Keys |-> 0]
    /\ issued = 0
    /\ overlapped = FALSE

\* get_catalog, lines 41-50: the call, the file name (get_cache_dir makes
\* the directory) and the freshness test.
SkyLookup(p, group, t) ==
    /\ UNCHANGED <<apiVars, loadVars>>
    /\ pc[p] = "idle"
    /\ issued < MaxCalls
    /\ issued' = issued + 1
    /\ dirs' = dirs \cup {get_cache_dir(t)}
    /\ overlapped' = (overlapped \/ \E q \in Procs : pc[q] # "idle")
    /\ arg' = [arg EXCEPT ![p] = [group |-> group, t |-> t]]
    /\ fname' = [fname EXCEPT ![p] = get_cache_file(group, t)]
    /\ need' = [need EXCEPT ![p] = NeedsDownload(get_cache_file(group, t))]
    /\ seen' = [seen EXCEPT ![p] =
                  IF exists(get_cache_file(group, t))
                  THEN days_old(get_cache_file(group, t)) ELSE -1]
    /\ pc' = [pc EXCEPT ![p] =
                IF NeedsDownload(get_cache_file(group, t))
                THEN "download" ELSE "open"]
    /\ UNCHANGED <<now, files, nDownload, nParse, nQuery>>

\* line 51: load.download(url, filename=catalog_fname).  It either writes
\* the whole file (ok) or raises; nothing in get_catalog catches the error.
SkyDownload(p, ok) ==
    /\ UNCHANGED <<apiVars, loadVars>>
    /\ pc[p] = "download"
    /\ IF ok
       THEN /\ files' = (fname[p] :> now) @@ files
            /\ nDownload' = [nDownload EXCEPT ![KeyOf(arg[p])] = @ + 1]
            /\ pc' = [pc EXCEPT ![p] = "open"]
       ELSE /\ pc' = [pc EXCEPT ![p] = "raised"]
            /\ UNCHANGED <<files, nDownload>>
    /\ UNCHANGED <<now, dirs, arg, fname, need, seen, nParse, nQuery,
                   issued, overlapped>>

\* lines 53-84: open the file, parse every row, build and return the list;
\* the caller may then call again.
SkyOpen(p) ==
    /\ UNCHANGED <<apiVars, loadVars>>
    /\ pc[p] = "open"
    /\ nParse' = [nParse EXCEPT ![KeyOf(arg[p])] = @ + 1]
    /\ nQuery' = [nQuery EXCEPT ![KeyOf(arg[p])] = @ + 1]
    /\ pc' = [pc EXCEPT ![p] = "idle"]
    /\ arg' = [arg EXCEPT ![p] = NoArg]
    /\ fname' = [fname EXCEPT ![p] = NoFile]
    /\ need' = [need EXCEPT ![p] = FALSE]
    /\ seen' = [seen EXCEPT ![p] = -1]
    /\ UNCHANGED <<now, dirs, files, nDownload, issued, overlapped>>

\* The exception of line 51 reaches the caller, who may call again.
SkyReturn(p) ==
    /\ UNCHANGED <<apiVars, loadVars>>
    /\ pc[p] = "raised"
    /\ pc' = [pc EXCEPT ![p] = "idle"]
    /\ arg' = [arg EXCEPT ![p] = NoArg]
    /\ fname' = [fname EXCEPT ![p] = NoFile]
    /\ need' = [need EXCEPT ![p] = FALSE]
    /\ seen' = [seen EXCEPT ![p] = -1]
    /\ UNCHANGED <<now, dirs, files, nDownload, nParse, nQuery, issued,
                   overlapped>>

\* Time passes.
Tick ==
    /\ UNCHANGED <<apiVars, loadVars>>
    /\ now < MaxClock
    /\ now' = now + 1
    /\ UNCHANGED <<dirs, files, pc, arg, fname, need, seen,
                   nDownload, nParse, nQuery, issued, overlapped>>

NextSky ==
    \/ \E p \in Procs, g \in Groups, t \in ObsTimes : SkyLookup(p, g, t)
    \/ \E p \in Procs, ok \in BOOLEAN : SkyDownload(p, ok)
    \/ \E p \in Procs : SkyOpen(p)
    \/ \E p \in Procs : SkyReturn(p)
    \/ Tick

Quiescent == \A p \in Procs : pc[p] = "idle"

(***************************************************************************)
(* app/norad_cache.py: ephemerides and the per-constellation caches.       *)
(* Angles are in units of 10^-6 degree, raw (unrounded) ones in 10^-7.     *)
(***************************************************************************)
Jansky == 1500000

\* The satellite caches with the GPS cache ahead of the SBAS cache.
SatSourcesGpsFirst ==
    <<"gps_cache", "waas_cache", "galileo_cache", "beidou_cache">>
\* The sources in the order get_catalog_list calls them.
SatSources == <<"waas_cache", "gps_cache", "galileo_cache", "beidou_cache">>
AllSources == SatSources \o <<"sun">>
SourceSet(srcs) == {srcs[i] : i \in 1..Len(srcs)}

\* Sp4Ephemerides.satellites of each cache's catalogue file, in file order.
Satellites(src) ==
    CASE src = "waas_cache"    -> <<[name |-> "S1", seed |-> 0],
                                    [name |-> "S2", seed |-> 1]>>
      [] src = "gps_cache"     -> <<[name |-> "G1", seed |-> 2],
                                    [name |-> "G2", seed |-> 0]>>
      [] src = "galileo_cache" -> <<[name |-> "E1", seed |-> 1]>>
      [] src = "beidou_cache"  -> <<[name |-> "C1", seed |-> 2]>>
      [] OTHER                 -> <<[name |-> "sun", seed |-> 0]>>

\* The hour of a timestamp given in seconds.
HourOf(date) == date \div 3600

\* Sp4Ephemeris.get_position: the propagated state of one satellite at the
\* full observation timestamp (the orbital mathematics is a table here).
Sp4Ephemeris_get_position(sv, date) ==
    [ecef     |-> <<sv.seed, HourOf(date), 0>>,
     ecef_dot |-> <<0, sv.seed, 0>>]

\* Sp4Ephemeris.get_az_el: raw range, elevation and azimuth of one
\* satellite for one observer; the elevations are -10 degrees, just under
\* 0 degrees and +10 degrees.
RawElevations == <<-100000000, -4, 100000000>>
Sp4Ephemeris_get_az_el(sv, date, lat, lon, alt) ==
    [r  |-> 200000 + sv.seed,
     el |-> RawElevations[
                ((sv.seed + HourOf(date) + lat + alt) % 3) + 1],
     az |-> ((sv.seed * 400000000) + lon) % 1800000000]

\* np.round(x, decimals=6) of a raw angle: round half to even.
Round6(n) == Format6(n)

\* line 84: if (el >= elevation)
AboveHorizonStrict(el, elevation) == el > elevation
AboveHorizon(el, elevation) == el >= elevation

\* Sp4Ephemerides.get_az_el
Sp4Ephemerides_get_az_el(sats, jansky, date, lat, lon, alt, elevation) ==
    LET F[i \in 0..Len(sats)] ==
            IF i = 0 THEN << >>
            ELSE LET raw == Sp4Ephemeris_get_az_el(sats[i], date, lat, lon, alt)
                     el  == Round6(raw.el)
                     az  == Round6(raw.az)
                 IN  IF AboveHorizon(el, elevation)
                     THEN Append(F[i - 1],
                                 [name |-> sats[i].name, r |-> raw.r,
                                  el |-> el, az |-> az, jy |-> jansky])
                     ELSE F[i - 1]
    IN  F[Len(sats)]

\* Sp4Ephemerides.get_positions
Sp4Ephemerides_get_positions(sats, jansky, date) ==
    [i \in 1..Len(sats) |->
        LET pv == Sp4Ephemeris_get_position(sats[i], date)
        IN  [name |-> sats[i].name, ecef |-> pv.ecef,
             ecef_dot |-> pv.ecef_dot, jy |-> jansky]]

SecondsPerDay == 86400

\* The calendar day of a timestamp (seconds after the server's utc.now(),
\* which is taken as the start of day 0).
DayOf(date) == date \div SecondsPerDay

\* FileCache.get_object: the parsed catalogue of the date's day is taken
\* from memory when it is there; otherwise it is fetched and parsed, which
\* raises when the source is unavailable.
get_object_raises(src, date, failing, objs) ==
    <<src, DayOf(date)>> \notin objs /\ src \in failing
get_object_objects(src, date, objs) == objs \cup {<<src, DayOf(date)>>}

\* SunObject.get_az_el: the sun as a one-record catalogue, computed with no
\* file behind it.
Sun_get_az_el(date, lat, lon, alt, elevation) ==
    Sp4Ephemerides_get_az_el(Satellites("sun"), 0, date, lat, lon, alt,
                             elevation)

\* main.py lines 27-31: a source is None until lifespan has assigned it;
\* calling a method of None raises AttributeError.
is_None(src) == src \notin caches

NoRun(objs) == [cat |-> << >>, raised |-> "none", asked |-> << >>, obj |-> objs]

\* EphemerisFileCache.get_az_el of each source in turn, as in
\*     cat = waas_cache.get_az_el(...); cat += gps_cache.get_az_el(...); ...
\* An exception ends the run: nothing after it is called.
get_catalog_list_from(run0, date, lat, lon, alt, elevation, failing) ==
    LET F[i \in 0..Len(AllSources)] ==
            IF i = 0 THEN run0
            ELSE LET prev == F[i - 1]
                     src  == AllSources[i]
                 IN  IF prev.raised # "none" THEN prev
                     ELSE IF is_None(src)
                     THEN [prev EXCEPT !.raised = src,
                                       !.asked = Append(@, src)]
                     ELSE IF src = "sun"
                     THEN [prev EXCEPT
                             !.cat = @ \o Sun_get_az_el(date, lat, lon, alt,
                                                        elevation),
                             !.asked = Append(@, src)]
                     ELSE IF get_object_raises(src, date, failing, prev.obj)
                     THEN [prev EXCEPT !.raised = src,
                                       !.asked = Append(@, src)]
                     ELSE [prev EXCEPT
                             !.cat = @ \o Sp4Ephemerides_get_az_el(
                                        Satellites(src), Jansky, date, lat,
                                        lon, alt, elevation),
                             !.asked = Append(@, src),
                             !.obj = get_object_objects(src, date, @)]
    IN  F[Len(AllSources)]

get_catalog_list(date, lat, lon, alt, elevation, failing, objs) ==
    get_catalog_list_from(NoRun(objs), date, lat, lon, alt, elevation, failing)

\* EphemerisFileCache.get_positions of the four satellite caches in turn.
get_position_list(date, failing, objs) ==
    LET F[i \in 0..Len(SatSources)] ==
            IF i = 0 THEN NoRun(objs)
            ELSE LET prev == F[i - 1]
                     src  == SatSources[i]
                 IN  IF prev.raised # "none" THEN prev
                     ELSE IF is_None(src)
                             \/ get_object_raises(src, date, failing, prev.obj)
                     THEN [prev EXCEPT !.raised = src,
                                       !.asked = Append(@, src)]
                     ELSE [prev EXCEPT
                             !.cat = @ \o Sp4Ephemerides_get_positions(
                                        Satellites(src), Jansky, date),
                             !.asked = Append(@, src),
                             !.obj = get_object_objects(src, date, @)]
    IN  F[Len(SatSources)]

(***************************************************************************)
(* Requests.                                                               *)
(***************************************************************************)
Absent   == [kind |-> "absent", t |-> 0]
Garbage  == [kind |-> "garbage", t |-> 0]
NowWord  == [kind |-> "now", t |-> 0]
Iso(t)   == [kind |-> "iso", t |-> t]

\* Timestamps a request may name, in seconds after the server's clock:
\* an hour ahead, exactly a day ahead, a second more than a day ahead.
Offsets == {3600, 86400, 86401}
DateArgs == {Absent, Garbage} \cup {Iso(t) : t \in Offsets}
BulkDateArgs == {Garbage, Iso(3600), Iso(86400)}

Given(v) == [has |-> TRUE, v |-> v]
NotGiven == [has |-> FALSE, v |-> 0]

\* Observer coordinates, in degrees: latitude 0 or 1, longitude 0, or no
\* latitude at all.
Observers == {[lat |-> Given(0), lon |-> Given(0)],
              [lat |-> Given(1), lon |-> Given(0)],
              [lat |-> NotGiven, lon |-> Given(0)]}
BulkObservers == {[lat |-> Given(0), lon |-> Given(0)],
                  [lat |-> NotGiven, lon |-> Given(0)]}
Eles == {0, 20000000}
Alts == {0, 1}

\* Which caches cannot fetch during a request.
Failures == {{}, {"gps_cache"}, SourceSet(SatSources)}
BulkFailures == {{}, {"gps_cache"}}

RECURSIVE SeqsUpTo(_, _)
SeqsUpTo(S, n) ==
    IF n = 0 THEN {<< >>}
    ELSE LET shorter == SeqsUpTo(S, n - 1)
         IN  shorter \cup {Append(q, x) : q \in {r \in shorter : Len(r) = n - 1},
                                          x \in S}

\* utc.from_string / dateutil's parser.parse: the timestamp an ISO string
\* names, or an exception.
from_string(ds) ==
    IF ds.kind = "iso" THEN [ok |-> TRUE, d |-> ds.t] ELSE [ok |-> FALSE, d |-> 0]

\* d.isoformat()
isoformat(d) == Iso(d)

Resp(status, kind, detail, body, dates) ==
    [status |-> status, kind |-> kind, detail |-> detail, body |-> body,
     dates |-> dates]
NoResponse == Resp(0, "none", "", << >>, << >>)

\* What a handler did: its response, the calls it made, the source that
\* raised, and the in-memory catalogues afterwards.
Outcome(resp, run) ==
    [response |-> resp, asked |-> run.asked, raised |-> run.raised,
     objects |-> run.obj]

(***************************************************************************)
(* app/norad_cache.py: Sp4Ephemerides.__init__, the catalogue file loader. *)
(* A line of text is a sequence of characters; " " is whitespace (every    *)
(* line readlines() returns ends with some).                               *)
(***************************************************************************)
NameLines == {<<"G", "A", " ">>, <<"G", "B", " ">>, <<" ", "S", " ">>}
Line1s == {<<"1", " ">>}
Line2s == {<<"2", "a", " ">>, <<"2", "b", " ">>}

\* The lines a catalogue file may hold at position i (counted from 0).
LinesAt(i) ==
    IF i % 3 = 0 THEN NameLines ELSE IF i % 3 = 1 THEN Line1s ELSE Line2s

\* Catalogue files of up to n lines: whole three-line blocks, and possibly
\* the first lines of one more.
RECURSIVE CatalogueFiles(_)
CatalogueFiles(n) ==
    IF n = 0 THEN {<< >>}
    ELSE LET shorter == CatalogueFiles(n - 1)
         IN  shorter \cup {Append(f, l) : f \in {g \in shorter : Len(g) = n - 1},
                                          l \in LinesAt(n - 1)}

\* The name_list argument: None, or a list of name fragments.
NameEntries == {<<"G">>, <<"A">>, <<"G", "B">>}
NoNameList == [has |-> FALSE, v |-> << >>]
NameLists == {NoNameList} \cup {Given(l) : l \in SeqsUpTo(NameEntries, MaxNames)}

\* str.strip()
RECURSIVE strip(_)
strip(l) ==
    IF l = << >> THEN l
    ELSE IF Head(l) = " " THEN strip(Tail(l))
    ELSE IF l[Len(l)] = " " THEN strip(SubSeq(l, 1, Len(l) - 1))
    ELSE l

\* n in name, for two strings
Contains(n, nm) ==
    \E k \in 0..(Len(nm) - Len(n)) : SubSeq(nm, k + 1, k + Len(n)) = n

\* twoline2rv(line1, line2, wgs84): the satellite the two lines describe.
twoline2rv(l1, l2) == [line1 |-> l1, line2 |-> l2]

\* Sp4Ephemeris(name, sv)
Sp4Ephemeris(nm, sv) == [name |-> nm, sv |-> sv]

\* lines 63-65: for n in name_list: if n in name: self.satellites.append(...)
AppendMatching(sats, list, nm, sv) ==
    LET F[k \in 0..Len(list)] ==
            IF k = 0 THEN sats
            ELSE IF Contains(list[k], nm)
                 THEN Append(F[k - 1], Sp4Ephemeris(nm, sv))
                 ELSE F[k - 1]
    IN  F[Len(list)]

Unbound == << >>

InitLoad ==
    /\ local_path \in CatalogueFiles(MaxLines)
    /\ name_list = NoNameList
    /\ lines = << >>
    /\ lineno = 0
    /\ name = Unbound
    /\ line1 = Unbound
    /\ line2 = Unbound
    /\ satellites = << >>
    /\ lpc = "new"

\* lines 44-47: the call, self.satellites = [], lines = f.readlines()
Sp4Ephemerides_init(nl) ==
    /\ lpc = "new"
    /\ name_list' = nl
    /\ satellites' = << >>
    /\ lines' = local_path
    /\ lineno' = 0
    /\ lpc' = IF Len(local_path) = 0 THEN "done" ELSE "loop"
    /\ UNCHANGED <<local_path, name, line1, line2, skyVars, apiVars>>

\* lines 48-65: one turn of  for i, l in enumerate(lines)
ReadLine ==
    /\ lpc = "loop"
    /\ lineno < Len(lines)
    /\ LET l == lines[lineno + 1]
       IN  /\ name' = IF lineno % 3 = 0 THEN strip(l) ELSE name
           /\ line1' = IF lineno % 3 = 1 THEN strip(l) ELSE line1
           /\ line2' = IF lineno % 3 = 2 THEN strip(l) ELSE line2
           /\ satellites' =
                  IF lineno % 3 = 2
                  THEN LET sv == twoline2rv(line1, strip(l))
                       IN  IF ~name_list.has
                           THEN Append(satellites, Sp4Ephemeris(name, sv))
                           ELSE AppendMatching(satellites, name_list.v, name, sv)
                  ELSE satellites
    /\ lineno' = lineno + 1
    /\ lpc' = IF lineno + 1 = Len(lines) THEN "done" ELSE "loop"
    /\ UNCHANGED <<local_path, name_list, lines, skyVars, apiVars>>

NextLoad ==
    \/ \E nl \in NameLists : Sp4Ephemerides_init(nl)
    \/ ReadLine

(***************************************************************************)
(* tart_catalogue/main.py (FastAPI)                                        *)
(***************************************************************************)
\* line 109: (d - current_date).total_seconds() > 86400.0
FutureLimitLoose(d, current_date) == d - current_date > 2 * SecondsPerDay
FutureLimit(d, current_date) == d - current_date > SecondsPerDay

\* parse_date
parse_date(date_string) ==
    LET parsed == IF date_string.kind = "absent"
                  THEN [ok |-> TRUE, d |-> 0]
                  ELSE from_string(date_string)
    IN  IF ~parsed.ok
        THEN [ok |-> FALSE, d |-> 0, status |-> 400, detail |-> "Invalid Date"]
        ELSE IF FutureLimit(parsed.d, 0)
        THEN [ok |-> FALSE, d |-> parsed.d, status |-> 400,
              detail |-> "more than 24 hours in future"]
        ELSE [ok |-> TRUE, d |-> parsed.d, status |-> 200, detail |-> ""]

\* GET /catalog
get_catalog(q, failing, objs) ==
    IF ~q.lat.has \/ ~q.lon.has
    THEN Outcome(Resp(422, "error", "field required", << >>, << >>), NoRun(objs))
    ELSE LET pd == parse_date(q.date)
         IN  IF ~pd.ok
             THEN Outcome(Resp(pd.status, "error", pd.detail, << >>, << >>),
                          NoRun(objs))
             ELSE LET run == get_catalog_list(pd.d, q.lat.v, q.lon.v, 0,
                                              q.ele, failing, objs)
                  IN  IF run.raised # "none"
                      THEN Outcome(Resp(500, "error", run.raised, << >>, << >>),
                                   run)
                      ELSE Outcome(Resp(200, "list", "", run.cat, << >>), run)

\* A /position that answers with what it had gathered before the failure.
get_position_partial(q, failing, objs, errStatus) ==
    LET pd == parse_date(q.date)
    IN  IF ~pd.ok
        THEN Outcome(Resp(pd.status, "error", pd.detail, << >>, << >>),
                     NoRun(objs))
        ELSE LET run == get_position_list(pd.d, failing, objs)
             IN  Outcome(Resp(200, "list", "", run.cat, << >>), run)

\* GET /position.  The error object of line 191 is returned normally; the
\* framework answers it with 200 or, failing the response model, with 500.
get_position(q, failing, objs, errStatus) ==
    LET pd == parse_date(q.date)
    IN  IF ~pd.ok
        THEN Outcome(Resp(pd.status, "error", pd.detail, << >>, << >>),
                     NoRun(objs))
        ELSE LET run == get_position_list(pd.d, failing, objs)
             IN  IF run.raised # "none"
                 THEN Outcome(Resp(errStatus, "error", run.raised, << >>, << >>),
                              run)
                 ELSE Outcome(Resp(200, "list", "", run.cat, << >>), run)

\* [get_catalog_list(d, ...) for d in date_list]: one run per date, each
\* starting from the catalogues the one before left in memory.
bulk_az_el(dates, lat, lon, alt, elevation, failing, objs) ==
    LET F[i \in 0..Len(dates)] ==
            IF i = 0 THEN [lists |-> << >>, run |-> NoRun(objs)]
            ELSE LET prev == F[i - 1]
                 IN  IF prev.run.raised # "none" THEN prev
                     ELSE LET run == get_catalog_list_from(
                                        [prev.run EXCEPT !.cat = << >>],
                                        dates[i], lat, lon, alt, elevation,
                                        failing)
                          IN  [lists |-> Append(prev.lists, run.cat),
                               run |-> run]
    IN  F[Len(dates)]

AllParsed(parsed) == \A i \in 1..Len(parsed) : parsed[i].ok

\* POST /bulk_az_el
get_bulk_az_el_fastapi(b, failing, objs) ==
    IF ~b.lat.has \/ ~b.lon.has
    THEN Outcome(Resp(422, "error", "field required", << >>, << >>), NoRun(objs))
    ELSE LET parsed == [i \in 1..Len(b.dates) |-> parse_date(b.dates[i])]
         IN  IF ~AllParsed(parsed)
             THEN \* the HTTPException of parse_date is an Exception: line 246
                  Outcome(Resp(500, "error", "Invalid Date", << >>, << >>),
                          NoRun(objs))
             ELSE LET date_list == [i \in 1..Len(parsed) |-> parsed[i].d]
                      res == bulk_az_el(date_list, b.lat.v, b.lon.v, b.alt, 0,
                                        failing, objs)
                  IN  IF res.run.raised # "none"
                      THEN Outcome(Resp(500, "error", res.run.raised, << >>,
                                        << >>), res.run)
                      ELSE Outcome(Resp(200, "bulk", "", res.lists,
                                        [i \in 1..Len(date_list) |->
                                            isoformat(date_list[i])]),
                                   res.run)

(***************************************************************************)
(* app/restful_api.py (Flask)                                              *)
(***************************************************************************)
\* parse_date
flask_parse_date(date_string) ==
    IF date_string.kind = "now" THEN [ok |-> TRUE, d |-> 0]
    ELSE from_string(date_string)

\* parse_request_date
parse_request_date(date_string) ==
    LET parsed == IF date_string.kind = "absent"
                  THEN [ok |-> TRUE, d |-> 0]
                  ELSE flask_parse_date(date_string)
    IN  IF ~parsed.ok
        THEN [ok |-> FALSE, d |-> 0, detail |-> "Invalid Date"]
        ELSE IF parsed.d - 0 > SecondsPerDay
        THEN [ok |-> FALSE, d |-> parsed.d,
              detail |-> "more than 24 hours in future"]
        ELSE [ok |-> TRUE, d |-> parsed.d, detail |-> ""]

\* handle_exception: the message is returned as the body of a normal reply.
handle_exception(detail) == Resp(200, "text", detail, << >>, << >>)

\* get_catalog
flask_get_catalog(q, failing, objs) ==
    LET pd == parse_request_date(q.date)
    IN  IF ~pd.ok THEN Outcome(handle_exception(pd.detail), NoRun(objs))
        ELSE IF ~q.lat.has \/ ~q.lon.has
        THEN Outcome(handle_exception("Missing Required Parameter"),
                     NoRun(objs))
        ELSE LET run == get_catalog_list(pd.d, q.lat.v, q.lon.v, 0, q.ele,
                                         failing, objs)
             IN  IF run.raised # "none"
                 THEN Outcome(handle_exception(run.raised), run)
                 ELSE Outcome(Resp(200, "list", "", run.cat, << >>), run)

\* get_pos
flask_get_pos(q, failing, objs) ==
    LET pd == parse_request_date(q.date)
    IN  IF ~pd.ok
        THEN Outcome(Resp(200, "error", pd.detail, << >>, << >>), NoRun(objs))
        ELSE LET run == get_position_list(pd.d, failing, objs)
             IN  IF run.raised # "none"
                 THEN Outcome(Resp(200, "error", run.raised, << >>, << >>), run)
                 ELSE Outcome(Resp(200, "list", "", run.cat, << >>), run)

\* get_bulk_az_el
flask_get_bulk_az_el(b, failing, objs) ==
    IF b.ctype # "application/json"
    THEN Outcome(Resp(200, "text", "Content-Type not supported", << >>, << >>),
                 NoRun(objs))
    ELSE IF ~b.lat.has \/ ~b.lon.has
    THEN \* KeyError before res is bound; the handler's own except clause
         \* then fails on res, and handle_exception answers
         Outcome(handle_exception("res referenced before assignment"),
                 NoRun(objs))
    ELSE LET parsed == [i \in 1..Len(b.dates) |-> flask_parse_date(b.dates[i])]
         IN  IF ~AllParsed(parsed)
             THEN Outcome(Resp(200, "error", "Invalid Date", << >>, << >>),
                          NoRun(objs))
             ELSE LET date_list == [i \in 1..Len(parsed) |-> parsed[i].d]
                      \* line 199: elevation = float(request_data['alt'])
                      res == bulk_az_el(date_list, b.lat.v, b.lon.v, b.alt,
                                        b.alt * 1000000, failing, objs)
                  IN  IF res.run.raised # "none"
                      THEN Outcome(Resp(200, "error", res.run.raised, << >>,
                                        << >>), res.run)
                      ELSE Outcome(Resp(200, "bulk", "", res.lists,
                                        [i \in 1..Len(date_list) |->
                                            isoformat(date_list[i])]),
                                   res.run)

(***************************************************************************)
(* The servers.                                                            *)
(***************************************************************************)
CatalogQueries(dates) ==
    {[lat |-> o.lat, lon |-> o.lon, ele |-> e, date |-> d] :
        o \in Observers, e \in Eles, d \in dates}
PositionQueries(dates) == {[date |-> d] : d \in dates}
BulkBodies ==
    {[ctype |-> c, lat |-> o.lat, lon |-> o.lon, alt |-> a, dates |-> ds] :
        c \in {"application/json"}, o \in BulkObservers, a \in Alts,
        ds \in SeqsUpTo(BulkDateArgs, MaxDates)}
FlaskBulkBodies ==
    BulkBodies \cup
    {[ctype |-> "text/plain", lat |-> Given(0), lon |-> Given(0), alt |-> 0,
      dates |-> << >>]}

NoRequest == [endpoint |-> "none"]

InitApi ==
    /\ server \in {"fastapi", "flask"}
    \* restful_api.py builds its caches when it is imported (lines 20-26)
    \* and then serves; main.py leaves them None until lifespan runs
    \* (lines 27-31).
    /\ caches = IF server = "flask" THEN SourceSet(AllSources) ELSE {}
    /\ started = (server = "flask")
    /\ assigned = IF server = "flask" THEN 1 ELSE 0
    /\ objects = {}
    /\ request = NoRequest
    /\ asked = << >>
    /\ raised = "none"
    /\ response = NoResponse

\* The framework hands requests to the handlers between the application's
\* startup and its shutdown.
Serving == started

\* lifespan, lines 52-56: the sources the startup assigns, without the sun.
lifespan_sources_no_sun == SourceSet(SatSources)
\* lifespan, lines 52-56: the sources the startup assigns.
lifespan_sources == SourceSet(AllSources)

\* lifespan up to its yield: a startup of the application builds the five
\* module-wide sources anew, before any request of that run.  The server
\* process starts the application once (line 269); the test module starts
\* it once for every request it sends (test_main.py lines 8-14).
Lifespan ==
    /\ server = "fastapi"
    /\ ~started
    /\ assigned < MaxStarts
    /\ caches' = lifespan_sources
    /\ started' = TRUE
    /\ assigned' = assigned + 1
    /\ objects' = {}
    /\ request' = NoRequest
    /\ asked' = << >>
    /\ raised' = "none"
    /\ response' = NoResponse
    /\ UNCHANGED <<server, skyVars, loadVars>>

\* lifespan after its yield (line 59): the application shuts down; the
\* module-wide sources stay as they are.
Shutdown ==
    /\ server = "fastapi"
    /\ started
    /\ started' = FALSE
    /\ UNCHANGED <<server, caches, assigned, objects, request, asked, raised,
                   response, skyVars, loadVars>>

Handle(endpoint, args, failing, out) ==
    /\ Serving
    /\ request' = [endpoint |-> endpoint, args |-> args, failing |-> failing]
    /\ response' = out.response
    /\ asked' = out.asked
    /\ raised' = out.raised
    /\ objects' = out.objects
    /\ UNCHANGED <<server, caches, started, assigned, skyVars, loadVars>>

CatalogFastAPI ==
    \E q \in CatalogQueries(DateArgs), failing \in Failures :
        /\ server = "fastapi"
        /\ Handle("catalog", q, failing, get_catalog(q, failing, objects))

PositionFastAPI ==
    \E q \in PositionQueries(DateArgs), failing \in Failures,
       errStatus \in {200, 500} :
        /\ server = "fastapi"
        /\ Handle("position", q, failing,
                  get_position(q, failing, objects, errStatus))

BulkFastAPI ==
    \E b \in BulkBodies, failing \in BulkFailures :
        /\ server = "fastapi"
        /\ Handle("bulk_az_el", b, failing,
                  get_bulk_az_el_fastapi(b, failing, objects))

CatalogFlask ==
    \E q \in CatalogQueries(DateArgs \cup {NowWord}), failing \in Failures :
        /\ server = "flask"
        /\ Handle("catalog", q, failing, flask_get_catalog(q, failing, objects))

PositionFlask ==
    \E q \in PositionQueries(DateArgs \cup {NowWord}), failing \in Failures :
        /\ server = "flask"
        /\ Handle("position", q, failing, flask_get_pos(q, failing, objects))

BulkFlask ==
    \E b \in FlaskBulkBodies, failing \in BulkFailures :
        /\ server = "flask"
        /\ Handle("bulk_az_el", b, failing,
                  flask_get_bulk_az_el(b, failing, objects))

Next ==
    \/ Lifespan
    \/ Shutdown
    \/ CatalogFastAPI
    \/ PositionFastAPI
    \/ BulkFastAPI
    \/ CatalogFlask
    \/ PositionFlask
    \/ BulkFlask

\* No catalogue file is being loaded while the servers or the cache run.
NoLoad == InitLoad /\ local_path = << >>

Init == InitSky /\ InitApi /\ NoLoad

Spec == Init /\ [][Next]_vars

SkyInit == InitSky /\ InitApi /\ server = "fastapi" /\ NoLoad

SkySpec == SkyInit /\ [][NextSky]_vars

LoadInit == InitSky /\ InitApi /\ server = "fastapi" /\ InitLoad

LoadSpec == LoadInit /\ [][NextLoad]_vars


(***************************************************************************)
(* Claims about the catalogue file cache (SkySpec).                        *)
(***************************************************************************)

\* C2: after any sequence of queries made one after the other, every
\* (group, calendar day) that was queried at all has been downloaded exactly
\* once and parsed exactly once, however many queries it served.
C2_OneDownloadOneParse ==
    (Quiescent /\ ~overlapped) =>
        \A k \in Keys :
            nQuery[k] >= 1 => (nDownload[k] = 1 /\ nParse[k] = 1)

\* C3: no two callers are ever downloading into the same cache file at the
\* same time.
C3_SingleFlight ==
    \A p, q \in Procs :
        (p # q /\ pc[p] = "download" /\ pc[q] = "download")
            => fname[p] # fname[q]

\* C4: a query fails on a failed download only when it found no file at
\* its path; a query that found an old file there is served from it.
C4_StaleFallback ==
    \A p \in Procs : pc[p] = "raised" => seen[p] = -1

\* C6 (as stated): a lookup downloads exactly when the file is missing or
\* its age exceeds the refresh period; a file whose age does not exceed
\* the period is reused.
C6_DownloadIffOlderThanPeriod ==
    [][\A p \in Procs :
          (pc[p] = "idle" /\ pc'[p] # "idle") =>
              (pc'[p] = "download" <=>
                  (~exists(fname'[p])
                      \/ days_old(fname'[p]) > max_days * TicksPerDay))]_vars

\* C6 (amended): a lookup downloads exactly when the file is missing or its
\* age has reached the refresh period (age >= one day); a file younger than
\* the period is reused without a download.
C6_DownloadIffMissingOrAged ==
    [][\A p \in Procs :
          (pc[p] = "idle" /\ pc'[p] # "idle") =>
              (pc'[p] = "download" <=>
                  (~exists(fname'[p])
                      \/ days_old(fname'[p]) >= max_days * TicksPerDay))]_vars

\* A lookup found a file exactly one refresh period old and went on to
\* download it again.
C6_Witness ==
    \E p \in Procs :
        pc[p] = "download" /\ need[p] /\ seen[p] = max_days * TicksPerDay

\* C7: two running calls use the same cache file exactly when they have the
\* same group and the same calendar day.
C7_PathByKindAndDay ==
    \A p, q \in Procs :
        (pc[p] # "idle" /\ pc[q] # "idle") =>
            (fname[p] = fname[q] <=> KeyOf(arg[p]) = KeyOf(arg[q]))

\* C8: after queries made one after the other with no wall-clock time
\* elapsed, once a group has been queried for a day and for the day after,
\* the later day has been downloaded exactly once, however many queries it
\* served.
C8_RolloverOneDownload ==
    (Quiescent /\ ~overlapped /\ now = 0) =>
        \A g \in Groups, d \in Days :
            (d + 1 \in Days /\ nQuery[<<g, d>>] >= 1
                /\ nQuery[<<g, d + 1>>] >= 1)
                => nDownload[<<g, d + 1>>] = 1

(***************************************************************************)
(* Claims about the HTTP servers (Spec).                                   *)
(***************************************************************************)
IsFuture(ds) == ds.kind = "iso" /\ ds.t > SecondsPerDay
IsInTime(ds) == ds.kind \in {"absent", "now"} \/ (ds.kind = "iso" /\ ds.t <= SecondsPerDay)
HasCoordinates(q) == q.lat.has /\ q.lon.has
IsRejection(resp) == resp.kind \in {"error", "text"} /\ resp.detail # ""

\* C1: every step that handles a /catalog request naming a date more than
\* 24 hours ahead answers with a client error (400 once the coordinates are
\* there, in the FastAPI server), calls no source and leaves the in-memory
\* catalogues as they were; a request with coordinates and a date at most
\* 24 hours ahead, or none, goes on to the catalogues and, when none of
\* them fails, is answered with the list.
C1_FutureDateRejected ==
    [][request'.endpoint = "catalog" =>
          /\ IsFuture(request'.args.date) =>
                /\ IsRejection(response')
                /\ asked' = << >>
                /\ objects' = objects
                /\ server = "fastapi" => response'.status \in {400, 422}
                /\ (server = "fastapi" /\ HasCoordinates(request'.args))
                       => response'.status = 400
          /\ (IsInTime(request'.args.date) /\ HasCoordinates(request'.args)) =>
                /\ asked' # << >>
                /\ response'.status # 400
                /\ raised' = "none" =>
                       (response'.status = 200 /\ response'.kind = "list")
      ]_vars

\* A /catalog request dated one second more than 24 hours ahead was turned
\* down with 400 while catalogues were in memory.
C1_Witness ==
    /\ server = "fastapi"
    /\ request.endpoint = "catalog"
    /\ request.args.date = Iso(SecondsPerDay + 1)
    /\ response.status = 400
    /\ asked = << >>
    /\ objects # {}

\* Every record of every source, unfiltered, in the order of the sources
\* and of their catalogues.
AzElRecord(src, sv, date, lat, lon, alt) ==
    LET raw == Sp4Ephemeris_get_az_el(sv, date, lat, lon, alt)
    IN  [name |-> sv.name, r |-> raw.r, el |-> Round6(raw.el),
         az |-> Round6(raw.az), jy |-> IF src = "sun" THEN 0 ELSE Jansky]

RECURSIVE AllAzEl(_, _, _, _, _)
AllAzEl(srcs, date, lat, lon, alt) ==
    IF srcs = << >> THEN << >>
    ELSE [i \in 1..Len(Satellites(Head(srcs))) |->
              AzElRecord(Head(srcs), Satellites(Head(srcs))[i], date, lat,
                         lon, alt)]
         \o AllAzEl(Tail(srcs), date, lat, lon, alt)

RequestTime(ds) == IF ds.kind = "iso" THEN ds.t ELSE 0

VisibleAt(q) ==
    LET AtLeast(rec) == rec.el >= q.ele
    IN  SelectSeq(AllAzEl(AllSources, RequestTime(q.date), q.lat.v, q.lon.v, 0),
                  AtLeast)

\* C5: a /catalog request answered with a list gets exactly the records
\* whose elevation is at least the threshold, in catalogue order, each with
\* name, r, el, az and jy; the others are left out and nothing is raised
\* for them.
C5_ElevationFilter ==
    (request.endpoint = "catalog" /\ response.kind = "list") =>
        /\ response.status = 200
        /\ response.body = VisibleAt(request.args)
        /\ \A i \in 1..Len(response.body) :
               /\ DOMAIN response.body[i] = {"name", "r", "el", "az", "jy"}
               /\ response.body[i].el >= request.args.ele

\* A list that keeps a record sitting exactly on the threshold and leaves
\* others out.
C5_Witness ==
    /\ request.endpoint = "catalog"
    /\ response.kind = "list"
    /\ \E i \in 1..Len(response.body) :
           response.body[i].el = request.args.ele
    /\ Len(response.body) > 0
    /\ Len(response.body) <
           Len(AllAzEl(AllSources, RequestTime(request.args.date),
                       request.args.lat.v, request.args.lon.v, 0))

IsAggregate == request.endpoint \in {"catalog", "position"}
SourcesOf(endpoint) == IF endpoint = "position" THEN SatSources ELSE AllSources

HasGarbageDate(endpoint, a) ==
    IF endpoint = "bulk_az_el"
    THEN \E i \in 1..Len(a.dates) : a.dates[i].kind = "garbage"
    ELSE a.date.kind = "garbage"
LacksCoordinate(endpoint, a) ==
    endpoint \in {"catalog", "bulk_az_el"} /\ ~(a.lat.has /\ a.lon.has)

\* C10: in the FastAPI server, a request with a malformed date or without a
\* required coordinate is answered with a 4xx status and a message, and
\* has called no source.
C10_InputErrorsAre4xx ==
    (server = "fastapi" /\ request.endpoint # "none"
        /\ (HasGarbageDate(request.endpoint, request.args)
                \/ LacksCoordinate(request.endpoint, request.args))) =>
        /\ response.status \in 400..499
        /\ response.detail # ""
        /\ asked = << >>

\* The aggregate az-el list for one date and one observer at the default
\* minimum elevation of /catalog (0 degrees).
DefaultElevationList(date, lat, lon, alt) ==
    LET AtLeastZero(rec) == rec.el >= 0
    IN  SelectSeq(AllAzEl(AllSources, date, lat, lon, alt), AtLeastZero)

\* C11: a /bulk_az_el request with n dates that is answered with a result
\* gets n az-el lists and n dates; the i-th list is the aggregate list for
\* the i-th date and the body's lat, lon and alt at minimum elevation 0, as
\* /catalog gives it by default, and the i-th date is the i-th input in ISO
\* form.
C11_BulkListPerDate ==
    (request.endpoint = "bulk_az_el" /\ response.kind = "bulk") =>
        /\ Len(response.body) = Len(request.args.dates)
        /\ Len(response.dates) = Len(request.args.dates)
        /\ \A i \in 1..Len(request.args.dates) :
               /\ response.dates[i] = Iso(RequestTime(request.args.dates[i]))
               /\ response.body[i] =
                      DefaultElevationList(RequestTime(request.args.dates[i]),
                                           request.args.lat.v,
                                           request.args.lon.v,
                                           request.args.alt)

PositionsOf(src, date) ==
    Sp4Ephemerides_get_positions(Satellites(src), Jansky, date)
AzElOf(src, q) ==
    Sp4Ephemerides_get_az_el(Satellites(src), Jansky, RequestTime(q.date),
                             q.lat.v, q.lon.v, 0, q.ele)
NamesOf(src) == {Satellites(src)[i].name : i \in 1..Len(Satellites(src))}

\* C12: a /position request answered with a list gets the position lists
\* of the SBAS, GPS, Galileo and Beidou catalogues, in that order, each
\* computed for the request's full timestamp, and no entry of the sun; a
\* /catalog request answered with a list gets the az-el lists of the same
\* four catalogues in the same order, followed by the sun's.
C12_FixedSourceOrder ==
    /\ (request.endpoint = "position" /\ response.kind = "list") =>
          /\ response.body =
                 PositionsOf("waas_cache", RequestTime(request.args.date))
                 \o PositionsOf("gps_cache", RequestTime(request.args.date))
                 \o PositionsOf("galileo_cache", RequestTime(request.args.date))
                 \o PositionsOf("beidou_cache", RequestTime(request.args.date))
          /\ \A i \in 1..Len(response.body) :
                 response.body[i].name \notin NamesOf("sun")
          /\ asked = <<"waas_cache", "gps_cache", "galileo_cache",
                       "beidou_cache">>
    /\ (request.endpoint = "catalog" /\ response.kind = "list") =>
          /\ response.body =
                 AzElOf("waas_cache", request.args)
                 \o AzElOf("gps_cache", request.args)
                 \o AzElOf("galileo_cache", request.args)
                 \o AzElOf("beidou_cache", request.args)
                 \o Sun_get_az_el(RequestTime(request.args.date),
                                  request.args.lat.v, request.args.lon.v, 0,
                                  request.args.ele)
          /\ asked = <<"waas_cache", "gps_cache", "galileo_cache",
                       "beidou_cache", "sun">>

\* A /position request for a time an hour ahead was answered with the six
\* satellites in catalogue order, propagated to that hour.
C12_Witness ==
    /\ request.endpoint = "position"
    /\ request.args.date = Iso(3600)
    /\ response.kind = "list"
    /\ [i \in 1..Len(response.body) |-> response.body[i].name]
           = <<"S1", "S2", "G1", "G2", "E1", "C1">>
    /\ \A i \in 1..Len(response.body) :
           response.body[i].ecef[2] = HourOf(3600)
    /\ response.body # PositionsOf("waas_cache", 0)
                       \o PositionsOf("gps_cache", 0)
                       \o PositionsOf("galileo_cache", 0)
                       \o PositionsOf("beidou_cache", 0)

\* In the FastAPI server: the five sources are all there whenever the
\* application is started and whenever a handler has run, and no handler
\* has called a source that was None.
InitialisedForHandlers ==
    server = "fastapi" =>
        /\ caches \in {{}, SourceSet(AllSources)}
        /\ started => caches = SourceSet(AllSources)
        /\ request.endpoint # "none" =>
               (assigned >= 1 /\ caches = SourceSet(AllSources))
        /\ \A k \in 1..Len(asked) : asked[k] \in caches

\* In the FastAPI server: a step that handles a request is taken by a
\* started application whose five sources are all there.
HandlersAfterStartup ==
    (server = "fastapi" /\ request'.endpoint # "none" /\ started' = started)
        => (started /\ caches = SourceSet(AllSources))

\* In the FastAPI server: once assigned the sources are never None again,
\* and they are not assigned while the application is serving.
NotReplacedWhileServing ==
    server = "fastapi" =>
        /\ caches # {} => caches' = SourceSet(AllSources)
        /\ (started /\ started') => (caches' = caches /\ assigned' = assigned)

\* C14 (as stated): in the FastAPI server the five sources are initialised
\* by the startup lifespan before any handler runs, are assigned exactly
\* once per process, and are never reset to None or replaced while requests
\* are served, so no handler dereferences an uninitialised source.
C14_AssignedOncePerProcess ==
    /\ [](InitialisedForHandlers /\ (server = "fastapi" => assigned <= 1))
    /\ [][HandlersAfterStartup /\ NotReplacedWhileServing]_vars

\* C14 (amended): in the FastAPI server the five sources are initialised by
\* the startup lifespan before any handler runs; they are assigned once at
\* every startup of the application (a process that starts the application
\* again assigns them again, before any request of the new run), and from
\* a startup to the shutdown after it they are never reset to None or
\* replaced, so no handler dereferences an uninitialised source.
C14_AssignedAtEachStartup ==
    /\ []InitialisedForHandlers
    /\ [][/\ HandlersAfterStartup
          /\ NotReplacedWhileServing
          /\ (server = "fastapi" /\ assigned' # assigned) =>
                 /\ ~started /\ started'
                 /\ assigned' = assigned + 1
                 /\ caches' = SourceSet(AllSources)
                 /\ request'.endpoint = "none"]_vars

\* A /catalog request was answered from all five sources by an application
\* that had been started for the second time in its process.
C14_Witness ==
    /\ server = "fastapi"
    /\ started
    /\ assigned = 2
    /\ request.endpoint = "catalog"
    /\ asked = AllSources
    /\ response.kind = "list"

(***************************************************************************)
(* Claims about the catalogue file loader (LoadSpec).                      *)
(***************************************************************************)
\* The k-th complete three-line block of the file, as a record.
BlockRecord(k) ==
    Sp4Ephemeris(strip(local_path[3 * k - 2]),
                 twoline2rv(strip(local_path[3 * k - 1]),
                            strip(local_path[3 * k])))

\* Whether a block of that name is wanted.
Wanted(nm) ==
    ~name_list.has
        \/ \E e \in 1..Len(name_list.v) : Contains(name_list.v[e], nm)

WantedRecords ==
    LET IsWanted(rec) == Wanted(rec.name)
    IN  SelectSeq([k \in 1..(Len(local_path) \div 3) |-> BlockRecord(k)],
                  IsWanted)

\* C13: once a file of L lines is loaded, the records are those of its
\* complete three-line blocks, in file order: all floor(L/3) of them with
\* no name_list, and with a name_list exactly the blocks whose name
\* contains an entry of it, each block once; the lines of an incomplete
\* last block add nothing.
C13_OneRecordPerBlock ==
    lpc = "done" =>
        /\ satellites = WantedRecords
        /\ Len(satellites) <= Len(local_path) \div 3
        /\ ~name_list.has => Len(satellites) = Len(local_path) \div 3

====
